---- MODULE Spec2Model ----
(***************************************************************************)
(* Session orchestrator of ll_web_agent: the finite-state machine of       *)
(* backend/src/orchestrator/fsm.ts and the Orchestrator class (first       *)
(* definition in backend/src/orchestrator/Orchestrator.ts) that drives it. *)
(*                                                                         *)
(* One JavaScript event-loop turn is one action: a handler runs to its     *)
(* first await without interleaving, and each resumption is a further      *)
(* action.  FSM notifications (onStateUpdate -> handleFsmUpdate) run       *)
(* synchronously inside dispatch, so dispatch, handleFsmUpdate and         *)
(* executeStep are mutually recursive operators over the record of the     *)
(* orchestrator's fields.                                                  *)
(***************************************************************************)
EXTENDS Integers, Sequences, FiniteSets, TLC

(***************************************************************************)
(* Bounds of the model.                                                    *)
(***************************************************************************)
MaxSteps == 2         \* longest parsed step list
MaxSessions == 2      \* startSession calls in one behaviour
MaxRpcId == 3         \* largest JSON-RPC id issued on one stream
MaxRetryBudget == 2   \* largest MAX_RETRIES explored by SpecRetry
MaxEmitted == 12      \* most tool calls in one answer of the LLM
MaxFindLen == 3       \* longest step list searched by findNextExecutableStep
MaxSnapshotLength == 20000  \* longest snapshot truncated
MaxReconnectAttempts == 2   \* maxAttempts the McpSocket is constructed with
MaxWebSockets == 4          \* most WebSocket objects one McpSocket creates

(***************************************************************************)
(* Program constants.                                                      *)
(***************************************************************************)
MAX_RETRIES == 0
UNKNOWN == "<UNKNOWN>"
SNAPSHOT_TOOL == "browser_snapshot"
STEP_LIMIT == 10

\* The tools the server's tools/list names, and a tool of the parser's own
\* list that the server does not name.
Tools == {"browser_click", SNAPSHOT_TOOL}
Uncatalogued == "scroll"
ArgValues == {UNKNOWN, "e1"}
Snapshots == {"snapA"}
NoSnapshot == "null"
NoError == "null"

\* McpToolCall: one argument key ("ref") stands for the arguments object.
McpToolCall == [tool_name : Tools \cup {Uncatalogued}, arguments : [ref : ArgValues], tool_call_id : 1..MaxSteps]
NoStep == [tool_name |-> "null", arguments |-> [ref |-> "null"], tool_call_id |-> 0]

\* Step lists the parser can return, ids assigned by position
\* (startSession: tool_call_id || `step_${index}_...`).
\* A browser_snapshot step carries no argument to resolve (the parser emits it
\* with an empty arguments object); "e1" stands for its arguments.
StepKinds == {k \in Tools \X ArgValues : k[1] = SNAPSHOT_TOOL => k[2] # UNKNOWN}
RawLists == UNION {[1..n -> StepKinds] : n \in 0..MaxSteps} \cup {<<<<Uncatalogued, "e1">>>>}
mkSteps(raw) == [i \in DOMAIN raw |->
                   [tool_name |-> raw[i][1], arguments |-> [ref |-> raw[i][2]], tool_call_id |-> i]]
StepLists == {mkSteps(raw) : raw \in RawLists}

States == {"IDLE", "WAIT_CONFIRM", "EXECUTE", "WAIT_LLM_RESPONSE", "ERROR"}

(***************************************************************************)
(* fsm.ts                                                                  *)
(***************************************************************************)
resetContext ==
    [retryCount |-> 0, currentStepIndex |-> -1, totalSteps |-> 0, steps |-> <<>>,
     latestSnapshot |-> NoSnapshot, stepToConfirm |-> NoStep, lastError |-> NoError]

\* Mutant of findNextExecutableStep: the search starts over from the first
\* step when none is left after currentIndex.
findNextExecutableStep_wraps(steps, currentIndex) ==
    LET after == {i \in (currentIndex + 1)..(Len(steps) - 1) : steps[i + 1].tool_name # SNAPSHOT_TOOL}
        cand == IF after # {} THEN after
                ELSE {i \in 0..(Len(steps) - 1) : steps[i + 1].tool_name # SNAPSHOT_TOOL}
    IN IF Len(steps) = 0 \/ cand = {} THEN -1
       ELSE CHOOSE i \in cand : \A j \in cand : i <= j

\* Smallest index > currentIndex whose step is not browser_snapshot, else -1
\* (indices are 0-based as in the source; steps[i + 1] is the source's steps[i]).
findNextExecutableStep(steps, currentIndex) ==
    LET cand == {i \in (currentIndex + 1)..(Len(steps) - 1) : steps[i + 1].tool_name # SNAPSHOT_TOOL}
    IN IF Len(steps) = 0 \/ cand = {} THEN -1
       ELSE CHOOSE i \in cand : \A j \in cand : i <= j

checkRefinementNeeded(step) ==
    \E k \in DOMAIN step.arguments : step.arguments[k] = UNKNOWN

\* Mutants of the retry test: the budget counted in failures instead of
\* retries, and a budget that allows one retry too many.
mayRetry_countsFailures(retryCount, budget) == retryCount + 1 < budget
mayRetry_inclusive(retryCount, budget) == retryCount <= budget

\* The retry test shared by the three failure branches.
mayRetry(retryCount, budget) == retryCount < budget

\* payload?.error || <default>
errorOr(err, dflt) == IF err = NoError THEN dflt ELSE err

Payload == [steps |-> <<>>, snapshot |-> NoSnapshot, refinedStep |-> NoStep, error |-> NoError]

dispatchIDLE(ctx, event, payload) ==
    IF event = "PARSING_COMPLETE"
    THEN LET c0 == [resetContext EXCEPT !.steps = payload.steps, !.totalSteps = Len(payload.steps)]
             first == findNextExecutableStep(c0.steps, c0.currentStepIndex)
         IN IF first # -1
            THEN [state |-> "WAIT_CONFIRM",
                  ctx |-> [c0 EXCEPT !.currentStepIndex = first, !.stepToConfirm = c0.steps[first + 1]]]
            ELSE [state |-> "IDLE", ctx |-> resetContext]
    ELSE IF event = "PARSING_FAILED"
    THEN [state |-> "ERROR", ctx |-> [ctx EXCEPT !.lastError = errorOr(payload.error, "Parsing failed")]]
    ELSE [state |-> "IDLE", ctx |-> ctx]

\* Mutant of dispatchWAIT_CONFIRM: CANCEL_SESSION is not handled.
dispatchWAIT_CONFIRM_ignoresCancel(ctx, event, payload) ==
    IF event = "CONFIRM_STEP"
    THEN IF ctx.stepToConfirm # NoStep /\ ctx.currentStepIndex # -1
         THEN [state |-> "EXECUTE", ctx |-> [ctx EXCEPT !.stepToConfirm = NoStep, !.retryCount = 0]]
         ELSE [state |-> "ERROR", ctx |-> [ctx EXCEPT !.lastError = "Internal error during confirmation"]]
    ELSE IF event = "REJECT_STEP"
    THEN [state |-> "IDLE", ctx |-> resetContext]
    ELSE [state |-> "WAIT_CONFIRM", ctx |-> ctx]

dispatchWAIT_CONFIRM_keepsStep(ctx, event, payload) ==
    IF event = "CONFIRM_STEP"
    THEN IF ctx.stepToConfirm # NoStep /\ ctx.currentStepIndex # -1
         THEN [state |-> "EXECUTE", ctx |-> [ctx EXCEPT !.retryCount = 0]]
         ELSE [state |-> "ERROR", ctx |-> [ctx EXCEPT !.lastError = "Internal error during confirmation"]]
    ELSE IF event \in {"REJECT_STEP", "CANCEL_SESSION"}
    THEN [state |-> "IDLE", ctx |-> resetContext]
    ELSE [state |-> "WAIT_CONFIRM", ctx |-> ctx]

dispatchWAIT_CONFIRM(ctx, event, payload) ==
    IF event = "CONFIRM_STEP"
    THEN IF ctx.stepToConfirm # NoStep /\ ctx.currentStepIndex # -1
         THEN [state |-> "EXECUTE", ctx |-> [ctx EXCEPT !.stepToConfirm = NoStep, !.retryCount = 0]]
         ELSE [state |-> "ERROR", ctx |-> [ctx EXCEPT !.lastError = "Internal error during confirmation"]]
    ELSE IF event \in {"REJECT_STEP", "CANCEL_SESSION"}
    THEN [state |-> "IDLE", ctx |-> resetContext]
    ELSE [state |-> "WAIT_CONFIRM", ctx |-> ctx]

\* Mutant of advanceAfterSuccess: the next step is put up for confirmation
\* whatever its arguments.
advanceAfterSuccess_showsUnrefined(ctx) ==
    LET next == findNextExecutableStep(ctx.steps, ctx.currentStepIndex)
    IN IF next # -1
       THEN [state |-> "WAIT_CONFIRM",
             ctx |-> [ctx EXCEPT !.currentStepIndex = next, !.retryCount = 0,
                                 !.stepToConfirm = ctx.steps[next + 1]]]
       ELSE [state |-> "IDLE", ctx |-> resetContext]

\* EXECUTE, MCP_RESPONSE_RECEIVED without error: advance to the next step.
advanceAfterSuccess(ctx) ==
    LET next == findNextExecutableStep(ctx.steps, ctx.currentStepIndex)
    IN IF next # -1
       THEN LET c1 == [ctx EXCEPT !.currentStepIndex = next, !.retryCount = 0]
                nextStep == c1.steps[next + 1]
            IN IF checkRefinementNeeded(nextStep)
               THEN IF c1.latestSnapshot # NoSnapshot
                    THEN [state |-> "WAIT_LLM_RESPONSE", ctx |-> c1]
                    ELSE [state |-> "ERROR",
                          ctx |-> [c1 EXCEPT !.lastError = "Refinement required but snapshot missing"]]
               ELSE [state |-> "WAIT_CONFIRM", ctx |-> [c1 EXCEPT !.stepToConfirm = nextStep]]
       ELSE [state |-> "IDLE", ctx |-> resetContext]

\* The retry-or-ERROR tail of a failure branch; stay is the state retried in.
failOrRetry(ctx, budget, stay) ==
    IF mayRetry(ctx.retryCount, budget)
    THEN [state |-> stay, ctx |-> [ctx EXCEPT !.retryCount = @ + 1]]
    ELSE [state |-> "ERROR", ctx |-> ctx]

\* Mutant of dispatchEXECUTE: CONFIRM_STEP is taken as the step's success.
dispatchEXECUTE_confirmAdvances(ctx, event, payload, budget) ==
    IF event = "MCP_RESPONSE_RECEIVED"
    THEN LET c0 == [ctx EXCEPT !.latestSnapshot = payload.snapshot]
         IN IF payload.error # NoError
            THEN failOrRetry([c0 EXCEPT !.lastError = payload.error], budget, "EXECUTE")
            ELSE advanceAfterSuccess(c0)
    ELSE IF event = "STEP_FAILED"
    THEN failOrRetry([ctx EXCEPT !.lastError = errorOr(payload.error, "Step execution failed")],
                     budget, "EXECUTE")
    ELSE IF event = "CANCEL_SESSION"
    THEN [state |-> "IDLE", ctx |-> resetContext]
    ELSE IF event = "CONFIRM_STEP"
    THEN advanceAfterSuccess(ctx)
    ELSE [state |-> "EXECUTE", ctx |-> ctx]

\* Mutant of dispatchEXECUTE: a response without a snapshot leaves the
\* snapshot held.
dispatchEXECUTE_keepsSnapshot(ctx, event, payload, budget) ==
    IF event = "MCP_RESPONSE_RECEIVED"
    THEN LET c0 == [ctx EXCEPT !.latestSnapshot = IF payload.snapshot # NoSnapshot
                                                  THEN payload.snapshot ELSE @]
         IN IF payload.error # NoError
            THEN failOrRetry([c0 EXCEPT !.lastError = payload.error], budget, "EXECUTE")
            ELSE advanceAfterSuccess(c0)
    ELSE IF event = "STEP_FAILED"
    THEN failOrRetry([ctx EXCEPT !.lastError = errorOr(payload.error, "Step execution failed")],
                     budget, "EXECUTE")
    ELSE IF event = "CANCEL_SESSION"
    THEN [state |-> "IDLE", ctx |-> resetContext]
    ELSE [state |-> "EXECUTE", ctx |-> ctx]

dispatchEXECUTE(ctx, event, payload, budget) ==
    IF event = "MCP_RESPONSE_RECEIVED"
    THEN LET c0 == [ctx EXCEPT !.latestSnapshot = payload.snapshot]
         IN IF payload.error # NoError
            THEN failOrRetry([c0 EXCEPT !.lastError = payload.error], budget, "EXECUTE")
            ELSE advanceAfterSuccess(c0)
    ELSE IF event = "STEP_FAILED"
    THEN failOrRetry([ctx EXCEPT !.lastError = errorOr(payload.error, "Step execution failed")],
                     budget, "EXECUTE")
    ELSE IF event = "CANCEL_SESSION"
    THEN [state |-> "IDLE", ctx |-> resetContext]
    ELSE [state |-> "EXECUTE", ctx |-> ctx]

dispatchWAIT_LLM_RESPONSE(ctx, event, payload, budget) ==
    IF event = "LLM_RESPONSE_RECEIVED" /\ payload.refinedStep # NoStep
    THEN [state |-> "WAIT_CONFIRM",
          ctx |-> [ctx EXCEPT !.steps[ctx.currentStepIndex + 1] = payload.refinedStep,
                              !.stepToConfirm = payload.refinedStep,
                              !.retryCount = 0]]
    ELSE IF event = "LLM_RESPONSE_FAILED"
    THEN failOrRetry([ctx EXCEPT !.lastError = errorOr(payload.error, "LLM refinement failed")],
                     budget, "WAIT_LLM_RESPONSE")
    ELSE IF event = "CANCEL_SESSION"
    THEN [state |-> "IDLE", ctx |-> resetContext]
    ELSE [state |-> "WAIT_LLM_RESPONSE", ctx |-> ctx]

\* Mutant of dispatchERROR: only RESET leaves ERROR.
dispatchERROR_resetOnly(ctx, event, payload) ==
    IF event = "RESET"
    THEN [state |-> "IDLE", ctx |-> resetContext]
    ELSE [state |-> "ERROR", ctx |-> ctx]

dispatchERROR_recordsFailure(ctx, event, payload) ==
    IF event \in {"RESET", "CANCEL_SESSION"}
    THEN [state |-> "IDLE", ctx |-> resetContext]
    ELSE IF event = "STEP_FAILED"
    THEN [state |-> "ERROR", ctx |-> [ctx EXCEPT !.lastError = errorOr(payload.error, "Step failed")]]
    ELSE [state |-> "ERROR", ctx |-> ctx]

dispatchERROR(ctx, event, payload) ==
    IF event \in {"RESET", "CANCEL_SESSION"}
    THEN [state |-> "IDLE", ctx |-> resetContext]
    ELSE [state |-> "ERROR", ctx |-> ctx]

\* The switch of OrchestratorFsm.dispatch: the new state and context.
transition(state, ctx, event, payload, budget) ==
    CASE state = "IDLE" -> dispatchIDLE(ctx, event, payload)
      [] state = "WAIT_CONFIRM" -> dispatchWAIT_CONFIRM(ctx, event, payload)
      [] state = "EXECUTE" -> dispatchEXECUTE(ctx, event, payload, budget)
      [] state = "WAIT_LLM_RESPONSE" -> dispatchWAIT_LLM_RESPONSE(ctx, event, payload, budget)
      [] state = "ERROR" -> dispatchERROR(ctx, event, payload)


(***************************************************************************)
(* Orchestrator.ts: the fields of the Orchestrator object, the FSM of the  *)
(* session last created, the requests and refinement calls in flight, and  *)
(* the position of the startSession call in progress.                      *)
(***************************************************************************)
VARIABLES
    fsmState,             \* OrchestratorFsm.currentState of the FSM last created
    ctx,                  \* OrchestratorFsm.context of that FSM
    session,              \* this.session: 0 = null, else the number of the startSession call that made it
    sessSteps,            \* this.session.steps (the array context.steps aliases)
    endpointEs,           \* this.endpointEs: 0 = null, else the number of the open stream
    sessionId,            \* this.sessionId: 0 = null
    sseUrl,               \* this.sseUrl: 0 = null, else the stream the POSTs go to
    rpcIdCounter,         \* this.rpcIdCounter
    dynamicToolMap,       \* this.dynamicToolMap (its keys)
    confirmationTimerId,  \* TRUE while this.confirmationTimerId holds a timer
    liveConfirmationTimers, \* confirmation timeouts scheduled and neither cleared nor fired
    pendingSnapshotTimer, \* 0 = no live snapshot timer, else the session whose POST armed it
    reqs,                 \* JSON-RPC requests POSTed that still have a callback to come
    refines,              \* refineStepArgumentsWithSnapshot calls awaited by handleFsmUpdate
    pc,                   \* position of the startSession call made last
    staleParses,          \* earlier startSession calls still awaiting parseInstruction
    stepsShared,          \* this.session.steps is the array context.steps refers to
    gen,                  \* number of startSession calls made
    inits,                \* the locals of each initializeMcpSession call (its closure)
    maxRetries,           \* the value of MAX_RETRIES the build was made with
    alwaysGetSnapshot,    \* process.env.ALWAYS_GET_SNAPSHOT === 'true'
    confirmed,            \* history: indices of the steps of this session the user confirmed
    applied,              \* history: the foreign or unmatched event the last step offered to the FSM
    startResult,          \* how the startSession call settled in the last step, if it did
    failures,             \* history: consecutive failures handled for the current step
    call,                 \* the call of a parser function under examination, if any
    ret,                  \* what that call returned
    mcpSocket,            \* the fields of the McpSocket object
    webSockets,           \* the WebSocket objects it created, in order of creation
    timers,               \* the setTimeout callbacks scheduled and neither cleared nor fired
    stopped               \* history: disconnect() was called and connect() not since

vars == <<fsmState, ctx, session, sessSteps, endpointEs, sessionId, sseUrl, rpcIdCounter,
          dynamicToolMap, confirmationTimerId, liveConfirmationTimers, pendingSnapshotTimer,
          reqs, refines, pc, staleParses, stepsShared, gen,
          inits, maxRetries, alwaysGetSnapshot, confirmed, applied, startResult, failures,
          call, ret, mcpSocket, webSockets, timers, stopped>>

\* The orchestrator as one record, so that the nested calls compose.
Cur ==
    [fsmState |-> fsmState, ctx |-> ctx, session |-> session, sessSteps |-> sessSteps,
     endpointEs |-> endpointEs, sessionId |-> sessionId, sseUrl |-> sseUrl,
     rpcIdCounter |-> rpcIdCounter, dynamicToolMap |-> dynamicToolMap,
     confirmationTimerId |-> confirmationTimerId,
     liveConfirmationTimers |-> liveConfirmationTimers,
     pendingSnapshotTimer |-> pendingSnapshotTimer,
     reqs |-> reqs, refines |-> refines, inits |-> inits, maxRetries |-> maxRetries,
     staleParses |-> staleParses, stepsShared |-> stepsShared, failures |-> failures]

\* The requests that can still call back: the POST is pending, or the answer
\* can still arrive on the open stream es. A closed stream delivers nothing,
\* and the callback of a request of an earlier session uses nothing of the
\* step it was sent for.
Live(rs, es, sess) ==
    {[r EXCEPT !.answered = @ \/ r.sid # es,
               !.idx = IF r.owner = sess THEN @ ELSE -1,
               !.step = IF r.owner = sess THEN @ ELSE NoStep] :
        r \in {q \in rs : q.post = "pending" \/ (~q.answered /\ q.sid = es)}}

NoInit == [toolsListReqId |-> 0, receivedToolsList |-> FALSE, toolsListResult |-> "undefined",
           settled |-> FALSE]

\* The closure of an initializeMcpSession call is kept while its tools/list
\* request can still call back.
LiveInits(is, rs) ==
    [g \in DOMAIN is |-> IF is[g].settled /\ ~\E r \in rs : r.kind = "list" /\ r.sid = g
                         THEN [NoInit EXCEPT !.settled = TRUE] ELSE is[g]]

\* The fields after a handler ran. this.session.steps is read in EXECUTE and
\* WAIT_LLM_RESPONSE only and an FSM back in IDLE is never started again, so
\* the array is dropped there. The record is computed once and named v.
Apply(n) ==
    \E v \in {n} :
        /\ fsmState' = v.fsmState
        /\ ctx' = v.ctx
        /\ session' = v.session
        /\ sessSteps' = IF v.fsmState = "IDLE" THEN <<>> ELSE v.sessSteps
        /\ endpointEs' = v.endpointEs
        /\ sessionId' = v.sessionId
        /\ sseUrl' = v.sseUrl
        /\ rpcIdCounter' = v.rpcIdCounter
        /\ dynamicToolMap' = v.dynamicToolMap
        /\ confirmationTimerId' = v.confirmationTimerId
        /\ liveConfirmationTimers' = v.liveConfirmationTimers
        /\ pendingSnapshotTimer' = v.pendingSnapshotTimer
        /\ reqs' = Live(v.reqs, v.endpointEs, v.session)
        /\ refines' = v.refines
        /\ inits' = LiveInits(v.inits, Live(v.reqs, v.endpointEs, v.session))
        /\ failures' = v.failures
        /\ staleParses' = v.staleParses
        /\ stepsShared' = (v.stepsShared \/ v.session = 0 \/ v.fsmState = "IDLE")
        /\ UNCHANGED <<maxRetries, alwaysGetSnapshot, call, ret,
                       mcpSocket, webSockets, timers, stopped>>

\* clearTimeout on the timer the field holds, if any.
clearConfirmationTimer(o) ==
    IF o.confirmationTimerId
    THEN [o EXCEPT !.confirmationTimerId = FALSE, !.liveConfirmationTimers = @ - 1]
    ELSE o

\* The existing timer is cleared first, then a new timeout is scheduled.
startConfirmationTimer(o) ==
    [clearConfirmationTimer(o) EXCEPT !.confirmationTimerId = TRUE,
                                      !.liveConfirmationTimers = @ + 1]

\* this.session = null drops the session's steps with it.
resetSession(o) ==
    [clearConfirmationTimer(o) EXCEPT !.endpointEs = 0, !.sessionId = 0, !.sseUrl = 0,
              !.session = 0, !.sessSteps = <<>>, !.rpcIdCounter = 1, !.dynamicToolMap = {}]

\* failSession of initializeMcpSession, without its reject(err).
failSession(o) ==
    [o EXCEPT !.endpointEs = 0, !.sessionId = 0, !.sseUrl = 0, !.dynamicToolMap = {}]

\* A failure event as the FSM counts it against the retry budget.
isFailure(state, event, payload) ==
    \/ state = "EXECUTE" /\ event = "STEP_FAILED"
    \/ state = "EXECUTE" /\ event = "MCP_RESPONSE_RECEIVED" /\ payload.error # NoError
    \/ state = "WAIT_LLM_RESPONSE" /\ event = "LLM_RESPONSE_FAILED"

\* The POST of executeStep: the request is on the wire when the call returns.
postStep(o, stepIndex, step) ==
    [o EXCEPT !.rpcIdCounter = @ + 1,
              !.reqs = @ \cup {[sid |-> o.sseUrl, id |-> o.rpcIdCounter, kind |-> "step",
                                owner |-> o.session, idx |-> stepIndex, step |-> step,
                                post |-> "pending", answered |-> FALSE]}]

\* The refinement call of handleFsmUpdate(WAIT_LLM_RESPONSE), up to its await.
callRefine(o, stepToRefine) ==
    [o EXCEPT !.refines = @ \cup {[owner |-> o.session, tool_name |-> stepToRefine.tool_name,
                                   ref |-> stepToRefine.arguments.ref,
                                   tool_call_id |-> stepToRefine.tool_call_id]}]

RECURSIVE dispatch(_, _, _)

\* this.session?.fsm.dispatch(event, payload)
sessionDispatch(o, event, payload) ==
    IF o.session # 0 THEN dispatch(o, event, payload) ELSE o

executeStep(o, stepIndex, step) ==
    IF o.sessionId = 0 \/ o.sseUrl = 0
    THEN sessionDispatch(o, "STEP_FAILED", [Payload EXCEPT !.error = "Session not initialized"])
    ELSE postStep(o, stepIndex, step)

\* The test on the context that guards the EXECUTE and WAIT_LLM_RESPONSE cases.
validIndex(o, context) ==
    /\ o.session # 0
    /\ context.currentStepIndex >= 0
    /\ context.currentStepIndex < context.totalSteps

\* The switch of handleFsmUpdate, the timers having been dealt with.
handleState(o, newState, context) ==
    CASE newState = "IDLE" -> o
      [] newState = "WAIT_CONFIRM" ->
           IF context.stepToConfirm # NoStep THEN o
           ELSE sessionDispatch(o, "STEP_FAILED",
                                [Payload EXCEPT !.error = "Internal error: stepToConfirm missing"])
      [] newState = "EXECUTE" ->
           IF validIndex(o, context)
           THEN IF context.currentStepIndex + 1 \in DOMAIN o.sessSteps
                THEN executeStep(o, context.currentStepIndex, o.sessSteps[context.currentStepIndex + 1])
                ELSE dispatch(o, "STEP_FAILED",
                              [Payload EXCEPT !.error = "Internal error: Step not found"])
           ELSE sessionDispatch(o, "STEP_FAILED",
                                [Payload EXCEPT !.error = "Internal error: Invalid context"])
      [] newState = "WAIT_LLM_RESPONSE" ->
           IF /\ validIndex(o, context)
              /\ context.latestSnapshot # NoSnapshot
              /\ context.currentStepIndex + 1 \in DOMAIN o.sessSteps
           THEN callRefine(o, o.sessSteps[context.currentStepIndex + 1])
           ELSE sessionDispatch(o, "LLM_RESPONSE_FAILED",
                                [Payload EXCEPT !.error = "Internal error: Invalid context"])
      [] newState = "ERROR" -> resetSession(o)

\* The confirmation timer is started on WAIT_CONFIRM and cleared on any other
\* state; the snapshot timer is left as it is.
handleFsmUpdate(o, newState, context) ==
    handleState(IF newState = "WAIT_CONFIRM" THEN startConfirmationTimer(o)
                ELSE clearConfirmationTimer(o),
                newState, context)

\* The FSM after the switch of dispatch chose t: the new state and context,
\* the write through the shared steps array, and the count of failures.
withTransition(o, t, failed) ==
    [o EXCEPT !.fsmState = t.state,
              !.ctx = t.ctx,
              !.sessSteps = IF /\ o.fsmState = "WAIT_LLM_RESPONSE"
                               /\ t.state = "WAIT_CONFIRM"
                               /\ o.stepsShared
                            THEN t.ctx.steps ELSE @,
              !.failures = IF failed THEN @ + 1
                           ELSE IF t.state # o.fsmState
                                   \/ t.ctx.currentStepIndex # o.ctx.currentStepIndex
                                THEN 0 ELSE @]

\* The tail of dispatch: the listener is called only on a change of state.
notifyStateUpdate(previousState, o) ==
    IF o.fsmState # previousState THEN handleFsmUpdate(o, o.fsmState, o.ctx) ELSE o

\* The tail of dispatch on an FSM that is not the active session's and went
\* from IDLE to t.state: its listener is the same handleFsmUpdate.
notifyOther(t, o) ==
    IF t.state # "IDLE" THEN handleFsmUpdate(o, t.state, t.ctx) ELSE o

\* OrchestratorFsm.dispatch on the FSM of the active session.
dispatch(o, event, payload) ==
    notifyStateUpdate(o.fsmState,
                      withTransition(o, transition(o.fsmState, o.ctx, event, payload, o.maxRetries),
                                     isFailure(o.fsmState, event, payload)))

(***************************************************************************)
(* Events offered to the FSM of the active session, with their origin.     *)
(***************************************************************************)
NoApplied == [via |-> "none", from |-> 0, to |-> 0, event |-> "none", match |-> TRUE, changed |-> FALSE]

\* The record of an offer that took o to n: kept when the event came from
\* another session than the active one, or is not the outcome of the call made
\* for the current step, and it changed the FSM.
offered(o, n, via, from, event, match) ==
    IF /\ o.session # 0
       /\ ~(from = o.session /\ match)
       /\ <<n.fsmState, n.ctx, n.sessSteps>> # <<o.fsmState, o.ctx, o.sessSteps>>
    THEN [via |-> via, from |-> from, to |-> o.session, event |-> event,
          match |-> match, changed |-> TRUE]
    ELSE NoApplied

\* this.session?.fsm.dispatch(event, payload) made by a callback that belongs
\* to session `from`; match tells whether the callback is the outcome of the
\* call made for the current step of that session.
Offer(o, via, from, event, payload, match) ==
    [o |-> sessionDispatch(o, event, payload),
     applied |-> offered(o, sessionDispatch(o, event, payload), via, from, event, match)]

ToolsResults == {"undefined", "empty", "tools"}

\* checkCompletion once both the session id and the tools list are in.
checkCompletion(o, result) ==
    [o EXCEPT !.dynamicToolMap = IF result = "tools" THEN Tools ELSE {}]

\* startSession after initializeMcpSession resolved: steps 1 to 3, up to the
\* await of parseInstruction; the new FSM's constructor notifies IDLE.
afterInit(o, g, result) ==
    IF result # "tools"
    THEN resetSession(o)
    ELSE [clearConfirmationTimer(o) EXCEPT !.fsmState = "IDLE", !.ctx = resetContext,
                                          !.session = g, !.sessSteps = <<>>, !.failures = 0,
                                          !.stepsShared = TRUE]

\* The promise of initializeMcpSession settles for call g: resolve(result), or
\* reject when result = "reject"; startSession continues in the same turn.
\* Settling a settled promise does nothing.
settle(o, g, result) ==
    LET o1 == [o EXCEPT !.inits[g].settled = TRUE]
    IN IF o.inits[g].settled THEN o1
       ELSE IF result = "reject" THEN resetSession(o1)
       ELSE afterInit(o1, g, result)

pcAfterSettle(g, result) ==
    IF inits[g].settled THEN pc
    ELSE IF result = "tools" THEN "parsing" ELSE "idle"

\* What a startSession call gives its caller: { steps } with so many steps,
\* or the Error thrown by its catch block.
NoResult == [outcome |-> "none", steps |-> 0]
startReturns(steps) == [outcome |-> "returned", steps |-> Len(steps)]
startThrows == [outcome |-> "error", steps |-> 0]

\* The call in progress ends in its catch block when it stops before parsing.
thrownIf(pcNew) == IF pc # "idle" /\ pcNew = "idle" THEN startThrows ELSE NoResult

(***************************************************************************)
(* startSession and initializeMcpSession                                   *)
(***************************************************************************)
\* startSession up to the first await inside initializeMcpSession. The FSM
\* of the previous session is referenced from here on only by a call that
\* still awaits parseInstruction, for which it is as constructed.
startSession ==
    /\ gen < MaxSessions
    /\ LET g == gen + 1
           o0 == [(IF session # 0 THEN resetSession(Cur) ELSE Cur)
                    EXCEPT !.fsmState = "IDLE", !.ctx = resetContext, !.failures = 0,
                           !.inits[g] = NoInit,
                           !.staleParses = IF pc = "parsing" THEN @ \cup {gen} ELSE @]
       IN /\ gen' = g
          /\ IF o0.sessionId # 0 /\ o0.endpointEs # 0
             THEN LET result == IF o0.dynamicToolMap # {} THEN "tools" ELSE "undefined"
                  IN /\ Apply(afterInit([o0 EXCEPT !.inits[g].settled = TRUE], g, result))
                     /\ pc' = IF result = "tools" THEN "parsing" ELSE "idle"
             ELSE /\ Apply([o0 EXCEPT !.endpointEs = g])
                  /\ pc' = "handshake"
    /\ confirmed' = {}
    /\ applied' = NoApplied
    /\ startResult' = IF pc' = "idle" THEN startThrows ELSE NoResult

\* startSession is async and nothing serialises its calls. Two schedules of
\* a call are modelled: made while no other call is in progress, and made
\* while the previous call awaits parseInstruction. A call made while the
\* previous one awaits initializeMcpSession is not modelled.
\* startSession called while no other call is in progress.
StartSession == pc = "idle" /\ startSession

\* startSession called while the previous call awaits parseInstruction.
StartSessionDuringParse == pc = "parsing" /\ startSession

\* The 'endpoint' event: session id, message handler, POST of tools/list.
Handshake ==
    /\ pc = "handshake"
    /\ endpointEs = gen
    /\ Apply([Cur EXCEPT !.sessionId = gen, !.sseUrl = gen, !.rpcIdCounter = @ + 1,
                         !.inits[gen].toolsListReqId = rpcIdCounter,
                         !.reqs = @ \cup {[sid |-> gen, id |-> rpcIdCounter, kind |-> "list",
                                           owner |-> 0, idx |-> -1, step |-> NoStep,
                                           post |-> "pending", answered |-> FALSE]}])
    /\ pc' = "toolsList"
    /\ applied' = NoApplied
    /\ startResult' = thrownIf(pc')
    /\ UNCHANGED <<gen, confirmed>>

\* The POST of tools/list completes (.then / .catch of axios.post). A server
\* may answer in the body after it has answered on the stream: .then does not
\* test receivedToolsList.
ToolsListPost(r, outcome, result) ==
    /\ r \in reqs /\ r.kind = "list" /\ r.post = "pending"
    /\ outcome \in {"sync", "accepted", "unexpected", "fail"}
    /\ result \in ToolsResults
    /\ outcome # "sync" => result = "undefined"
    /\ LET g == r.sid
           o0 == [Cur EXCEPT !.reqs = (@ \ {r}) \cup
                     {[r EXCEPT !.post = IF outcome = "fail" THEN "failed" ELSE "acked",
                                !.answered = @ \/ outcome = "sync"]}]
           res == IF outcome = "sync" THEN result ELSE inits[g].toolsListResult
           o1 == [o0 EXCEPT !.inits[g].receivedToolsList = TRUE, !.inits[g].toolsListResult = res]
       IN CASE outcome = "accepted" ->
                 /\ Apply(o0)
                 /\ UNCHANGED pc
            [] outcome \in {"sync", "unexpected"} ->
                 /\ Apply(settle(checkCompletion(o1, res), g, res))
                 /\ pc' = pcAfterSettle(g, res)
            [] outcome = "fail" ->
                 /\ Apply(settle(failSession(o0), g, "reject"))
                 /\ pc' = pcAfterSettle(g, "reject")
    /\ applied' = NoApplied
    /\ startResult' = thrownIf(pc')
    /\ UNCHANGED <<gen, confirmed>>

\* The answer to tools/list arrives on the stream: endpointEs.onmessage, then
\* the general 'message' listener, then (microtask) startSession's continuation.
ToolsListStream(r, result) ==
    /\ r \in reqs /\ r.kind = "list" /\ ~r.answered
    /\ r.sid = endpointEs
    /\ result \in ToolsResults
    /\ LET g == r.sid
           o0 == [Cur EXCEPT !.reqs = (@ \ {r}) \cup {[r EXCEPT !.answered = TRUE]}]
           fresh == ~inits[g].receivedToolsList
           o1 == IF fresh
                 THEN checkCompletion([o0 EXCEPT !.inits[g].receivedToolsList = TRUE,
                                                 !.inits[g].toolsListResult = result], result)
                 ELSE o0
           pay == [Payload EXCEPT !.error = IF result = "undefined" THEN "mcp error" ELSE NoError]
           off == Offer(o1, "stream", 0, "MCP_RESPONSE_RECEIVED", pay, FALSE)
       IN /\ Apply(IF fresh THEN settle(off.o, g, result) ELSE off.o)
          /\ applied' = off.applied
          /\ pc' = IF fresh THEN pcAfterSettle(g, result) ELSE pc
    /\ startResult' = thrownIf(pc')
    /\ UNCHANGED <<gen, confirmed>>

\* The 20 s timer of initializeMcpSession fires before completion.
InitTimeout ==
    /\ pc \in {"handshake", "toolsList"}
    /\ ~inits[gen].settled
    /\ Apply(settle(failSession(Cur), gen, "reject"))
    /\ pc' = "idle"
    /\ applied' = NoApplied
    /\ startResult' = thrownIf(pc')
    /\ UNCHANGED <<gen, confirmed>>

\* endpointEs.onerror = failSession: the push stream errors or closes.
StreamError ==
    /\ endpointEs # 0
    /\ Apply(settle(failSession(Cur), endpointEs, "reject"))
    /\ pc' = pcAfterSettle(endpointEs, "reject")
    /\ applied' = NoApplied
    /\ startResult' = thrownIf(pc')
    /\ UNCHANGED <<gen, confirmed>>

\* parseInstruction resolves: steps 5 and 6 of startSession. With
\* this.session null the assignment throws and the catch resets the session.
ParseDone(steps) ==
    /\ pc = "parsing"
    /\ steps \in StepLists
    /\ IF session = 0
       THEN /\ Apply(resetSession(Cur))
            /\ applied' = NoApplied
       ELSE LET off == Offer([Cur EXCEPT !.sessSteps = steps, !.stepsShared = TRUE], "start", session,
                             "PARSING_COMPLETE", [Payload EXCEPT !.steps = steps], TRUE)
            IN /\ Apply(off.o)
               /\ applied' = off.applied
    /\ pc' = "idle"
    /\ startResult' = IF session = 0 THEN startThrows ELSE startReturns(steps)
    /\ UNCHANGED <<gen, confirmed>>

\* parseInstruction resolves for an earlier call g after a later startSession
\* call began. Call g writes its steps into whatever this.session now is and
\* dispatches PARSING_COMPLETE on its own FSM, which has received no event
\* since its construction and whose listener is the orchestrator.
StaleParseDone(g, steps) ==
    /\ g \in staleParses
    /\ steps \in StepLists
    /\ LET o0 == [Cur EXCEPT !.staleParses = @ \ {g}]
           t == transition("IDLE", resetContext, "PARSING_COMPLETE",
                           [Payload EXCEPT !.steps = steps], maxRetries)
       IN IF session = 0
          THEN Apply(resetSession(o0))
          ELSE Apply(notifyOther(t, [o0 EXCEPT !.sessSteps = steps, !.stepsShared = FALSE]))
    /\ applied' = NoApplied
    /\ startResult' = IF session = 0 THEN startThrows ELSE startReturns(steps)
    /\ UNCHANGED <<pc, gen, confirmed>>

(***************************************************************************)
(* Callbacks of the requests in flight                                     *)
(***************************************************************************)
\* What the general 'message' listener extracts from a JSON-RPC message: an
\* error (a JSON-RPC error or result.isError) or an optional page snapshot.
Results ==
    {[error |-> "mcp error", snapshot |-> NoSnapshot]}
      \cup {[error |-> NoError, snapshot |-> sn] : sn \in Snapshots \cup {NoSnapshot}}

\* r is the tools/call issued for the step the active FSM is executing.
answersCurrentStep(r) ==
    /\ r.kind = "step"
    /\ r.owner = session
    /\ fsmState = "EXECUTE"
    /\ r.idx = ctx.currentStepIndex
    /\ \A q \in reqs : (q.kind = "step" /\ q.sid = r.sid) => q.id <= r.id

\* The general 'message' listener: a JSON-RPC message with an id arrives on
\* the open stream in answer to a tools/call.
StreamMessage(r, res) ==
    /\ r \in reqs /\ r.kind \in {"step", "snap"} /\ ~r.answered
    /\ r.sid = endpointEs
    /\ res \in Results
    /\ LET o0 == [Cur EXCEPT !.reqs = (@ \ {r}) \cup {[r EXCEPT !.answered = TRUE]}]
           pay == [Payload EXCEPT !.error = res.error, !.snapshot = res.snapshot]
           off == Offer(o0, "stream", r.owner, "MCP_RESPONSE_RECEIVED", pay, answersCurrentStep(r))
       IN /\ Apply(off.o)
          /\ applied' = off.applied
    /\ UNCHANGED <<pc, gen, confirmed>>
    /\ startResult' = NoResult

\* setupSnapshotTimer, called when the POST of a step is acknowledged.
setupSnapshotTimer(o, owner) ==
    IF alwaysGetSnapshot THEN [o EXCEPT !.pendingSnapshotTimer = owner] ELSE o

\* executeStep resumes after its await: the POST was acknowledged (2xx).
PostAck(r) ==
    /\ r \in reqs /\ r.kind = "step" /\ r.post = "pending"
    /\ Apply(setupSnapshotTimer([Cur EXCEPT !.reqs = (@ \ {r}) \cup {[r EXCEPT !.post = "acked"]}],
                                r.owner))
    /\ applied' = NoApplied
    /\ UNCHANGED <<pc, gen, confirmed>>
    /\ startResult' = NoResult

\* executeStep resumes after its await: the POST threw (network error,
\* time-out of the acknowledgment, non-2xx status).
PostFail(r) ==
    /\ r \in reqs /\ r.kind = "step" /\ r.post = "pending"
    /\ LET o0 == [Cur EXCEPT !.reqs = (@ \ {r}) \cup {[r EXCEPT !.post = "failed"]}]
           off == Offer(o0, "post", r.owner, "STEP_FAILED",
                        [Payload EXCEPT !.error = "Failed to send command"], answersCurrentStep(r))
       IN /\ Apply(off.o)
          /\ applied' = off.applied
    /\ UNCHANGED <<pc, gen, confirmed>>
    /\ startResult' = NoResult

\* requestSnapshot: a tools/call of browser_snapshot on the current stream;
\* the outcome of its POST is only logged.
requestSnapshot(o, owner) ==
    IF o.sseUrl = 0 THEN o
    ELSE [o EXCEPT !.rpcIdCounter = @ + 1,
                   !.reqs = @ \cup {[sid |-> o.sseUrl, id |-> o.rpcIdCounter, kind |-> "snap",
                                     owner |-> owner, idx |-> -1, step |-> NoStep,
                                     post |-> "acked", answered |-> FALSE]}]

\* The snapshot timer (SNAPSHOT_TIMEOUT_MS) fires.
SnapshotTimeout ==
    /\ pendingSnapshotTimer # 0
    /\ rpcIdCounter <= MaxRpcId
    /\ Apply(requestSnapshot([Cur EXCEPT !.pendingSnapshotTimer = 0], pendingSnapshotTimer))
    /\ applied' = NoApplied
    /\ UNCHANGED <<pc, gen, confirmed>>
    /\ startResult' = NoResult

\* handleFsmUpdate(WAIT_LLM_RESPONSE) resumes after its await: the refinement
\* returned arguments (value) or threw (value = "throw"); a call without an
\* UNKNOWN argument is returned as it is. With this.session
\* null the dispatch itself throws, handleFsmUpdate rejects and the catch of
\* startSession's callback resets the session.
RefineDone(rf, value) ==
    /\ rf \in refines
    /\ value \in ArgValues \cup {"throw"}
    /\ rf.ref # UNKNOWN => value = rf.ref
    /\ LET o0 == [Cur EXCEPT !.refines = @ \ {rf}]
           refinedStep == [tool_name |-> rf.tool_name, arguments |-> [ref |-> value],
                           tool_call_id |-> rf.tool_call_id]
           off == IF value = "throw"
                  THEN Offer(o0, "llm", rf.owner, "LLM_RESPONSE_FAILED",
                             [Payload EXCEPT !.error = "LLM refinement failed"], TRUE)
                  ELSE Offer(o0, "llm", rf.owner, "LLM_RESPONSE_RECEIVED",
                             [Payload EXCEPT !.refinedStep = refinedStep], TRUE)
       IN /\ Apply(IF session = 0 THEN resetSession(o0) ELSE off.o)
          /\ applied' = off.applied
    /\ UNCHANGED <<pc, gen, confirmed>>
    /\ startResult' = NoResult

(***************************************************************************)
(* Entry points of the API layer and the confirmation timer                *)
(***************************************************************************)
handleConfirmStep ==
    /\ session # 0
    /\ rpcIdCounter <= MaxRpcId
    /\ LET off == Offer(Cur, "user", session, "CONFIRM_STEP", Payload, TRUE)
       IN /\ Apply(off.o)
          /\ applied' = off.applied
    /\ confirmed' = IF fsmState = "WAIT_CONFIRM" /\ ctx.stepToConfirm # NoStep
                    THEN confirmed \cup {ctx.currentStepIndex}
                    ELSE confirmed
    /\ UNCHANGED <<pc, gen>>
    /\ startResult' = NoResult

\* The step ids a confirmation request can carry; 0 is a request without one.
StepIds == 0..MaxSteps

\* POST /api/confirm: stepId is read from the body, its absence is logged, and
\* handleConfirmStep is called without it.
apiConfirm(stepId) == handleConfirmStep

handleRejectStep ==
    /\ session # 0
    /\ LET off == Offer(Cur, "user", session, "REJECT_STEP", Payload, TRUE)
       IN /\ Apply(off.o)
          /\ applied' = off.applied
    /\ UNCHANGED <<pc, gen, confirmed>>
    /\ startResult' = NoResult

handleCancelSession ==
    /\ session # 0
    /\ LET off == Offer(Cur, "user", session, "CANCEL_SESSION", Payload, TRUE)
       IN /\ Apply(off.o)
          /\ applied' = off.applied
    /\ UNCHANGED <<pc, gen, confirmed>>
    /\ startResult' = NoResult

\* The callback of startConfirmationTimer.
ConfirmationTimeout ==
    /\ liveConfirmationTimers > 0
    /\ LET off == Offer([Cur EXCEPT !.confirmationTimerId = FALSE,
                                    !.liveConfirmationTimers = @ - 1], "timer", session,
                        "CANCEL_SESSION", Payload, TRUE)
       IN /\ Apply(off.o)
          /\ applied' = IF off.applied # NoApplied THEN off.applied
                         ELSE [NoApplied EXCEPT !.via = "timer"]
    /\ UNCHANGED <<pc, gen, confirmed>>
    /\ startResult' = NoResult

(***************************************************************************)
(* Specifications                                                          *)
(***************************************************************************)
\* McpSocket as constructed: no socket, no timer, no attempt made.
NoWs == 0
NoTimer == 0
InitSocket ==
    /\ mcpSocket = [ws |-> NoWs, shouldReconnect |-> TRUE, reconnectAttempts |-> 0,
                    reconnectTimer |-> NoTimer]
    /\ webSockets = <<>>
    /\ timers = {}
    /\ stopped = FALSE

InitCommon ==
    /\ InitSocket
    /\ fsmState = "IDLE"
    /\ ctx = resetContext
    /\ session = 0
    /\ sessSteps = <<>>
    /\ endpointEs = 0
    /\ sessionId = 0
    /\ sseUrl = 0
    /\ rpcIdCounter = 1
    /\ dynamicToolMap = {}
    /\ confirmationTimerId = FALSE
    /\ liveConfirmationTimers = 0
    /\ pendingSnapshotTimer = 0
    /\ startResult = NoResult
    /\ reqs = {}
    /\ refines = {}
    /\ pc = "idle"
    /\ staleParses = {}
    /\ stepsShared = TRUE
    /\ gen = 0
    /\ inits = [g \in 1..(MaxSessions + 1) |-> NoInit]
    /\ alwaysGetSnapshot \in BOOLEAN
    /\ confirmed = {}
    /\ applied = NoApplied
    /\ failures = 0

\* No parser function is under examination.
NoCall == [fn |-> "none"]
NoRet == [done |-> FALSE]

\* The program as shipped.
Init == InitCommon /\ maxRetries = MAX_RETRIES /\ call = NoCall /\ ret = NoRet

\* The program built with a retry budget above zero.
InitRetry == InitCommon /\ maxRetries \in 1..MaxRetryBudget /\ call = NoCall /\ ret = NoRet

\* The steps the system takes on its own: network, timers, collaborators.
SystemNext ==
    \/ Handshake
    \/ \E r \in reqs, outcome \in {"sync", "accepted", "unexpected", "fail"}, result \in ToolsResults :
          ToolsListPost(r, outcome, result)
    \/ \E r \in reqs, result \in ToolsResults : ToolsListStream(r, result)
    \/ InitTimeout
    \/ \E steps \in StepLists : ParseDone(steps)
    \/ \E r \in reqs, res \in Results : StreamMessage(r, res)
    \/ \E r \in reqs : PostAck(r)
    \/ \E r \in reqs : PostFail(r)
    \/ SnapshotTimeout
    \/ \E rf \in refines, value \in ArgValues \cup {"throw"} : RefineDone(rf, value)
    \/ ConfirmationTimeout

\* One startSession call at a time: the steps of the user, the loss of the
\* stream, and the steps of the system.
Sequential ==
    \/ StartSession
    \/ \E stepId \in StepIds : apiConfirm(stepId)
    \/ handleRejectStep
    \/ handleCancelSession
    \/ StreamError
    \/ SystemNext

\* A second startSession call made while the first awaits parseInstruction.
Overlap ==
    \/ StartSessionDuringParse
    \/ \E g \in staleParses, steps \in StepLists : StaleParseDone(g, steps)

Next == Sequential \/ Overlap

\* The program as shipped, under every interleaving modelled.
Spec == Init /\ [][Next]_vars

\* The steps explored with a retry budget above zero: one startSession call at
\* a time, and a second session only without ALWAYS_GET_SNAPSHOT.
Retrying ==
    \/ (alwaysGetSnapshot => gen = 0) /\ StartSession
    \/ \E stepId \in StepIds : apiConfirm(stepId)
    \/ handleRejectStep
    \/ handleCancelSession
    \/ StreamError
    \/ SystemNext

\* The retry budgets above zero.
SpecRetry == InitRetry /\ [][Retrying]_vars

\* Sessions the user starts and then leaves alone: no confirmation, rejection
\* or cancellation arrives, so no tools/call is ever issued.
Unattended ==
    \/ StartSession
    \/ Handshake
    \/ \E r \in reqs, outcome \in {"sync", "accepted", "unexpected", "fail"}, result \in ToolsResults :
          ToolsListPost(r, outcome, result)
    \/ \E r \in reqs, result \in ToolsResults : ToolsListStream(r, result)
    \/ InitTimeout
    \/ StreamError
    \/ \E steps \in StepLists : ParseDone(steps)
    \/ Overlap
    \/ ConfirmationTimeout

\* setTimeout: a timer that stays scheduled fires.
SpecUnattended == Init /\ [][Unattended]_vars /\ WF_vars(ConfirmationTimeout)

\* A user who starts one session and confirms
\* every step shown, and collaborators that do not fail: the handshake and
\* the tools/list answer arrive, every POST is accepted, every answer on the
\* stream is a success and every refinement returns.
Succeeds(r) == \E res \in Results : res.error = NoError /\ StreamMessage(r, res)

Refines(rf) == \E value \in ArgValues : RefineDone(rf, value)

Cooperative ==
    \/ gen = 0 /\ StartSession
    \/ Handshake
    \/ \E r \in reqs, outcome \in {"sync", "accepted", "unexpected"}, result \in ToolsResults :
          ToolsListPost(r, outcome, result)
    \/ \E r \in reqs, result \in ToolsResults : ToolsListStream(r, result)
    \/ \E steps \in StepLists : ParseDone(steps)
    \/ handleConfirmStep
    \/ \E r \in reqs : PostAck(r)
    \/ \E r \in reqs : Succeeds(r)
    \/ SnapshotTimeout
    \/ \E rf \in refines : Refines(rf)

\* The step shown is confirmed, the answer awaited in EXECUTE arrives, and the
\* refinement awaited in WAIT_LLM_RESPONSE returns.
SpecCooperative ==
    /\ Init
    /\ [][Cooperative]_vars
    /\ WF_vars(fsmState = "WAIT_CONFIRM" /\ handleConfirmStep)
    /\ WF_vars(fsmState = "EXECUTE" /\ \E r \in reqs : Succeeds(r))
    /\ WF_vars(fsmState = "WAIT_LLM_RESPONSE" /\ \E rf \in refines : Refines(rf))

TypeOK ==
    /\ fsmState \in States
    /\ liveConfirmationTimers \in 0..1
    /\ startResult \in [outcome : {"none", "returned", "error"}, steps : 0..MaxSteps]
    /\ session \in 0..MaxSessions
    /\ ctx.retryCount \in 0..maxRetries
    /\ ctx.currentStepIndex \in -1..(MaxSteps - 1)
    /\ staleParses \subseteq 1..MaxSessions
    /\ stepsShared \in BOOLEAN


\* getStatus(): the FSM of the session, or a default IDLE status without one.
getStatus ==
    IF session = 0 THEN [state |-> "IDLE", context |-> resetContext]
    ELSE [state |-> fsmState, context |-> ctx]

(***************************************************************************)
(* parser/parseInstruction.ts: the functions of the parser, each applied   *)
(* once to an input drawn from a bounded set.                              *)
(***************************************************************************)
\* An arguments object: the value under each key, Absent for a key it lacks.
ParamKeys == {"ref", "element"}
Absent == "absent"
Params == [ParamKeys -> ArgValues \cup {Absent}]

\* Call (types/mcp): what the orchestrator hands to the refinement.
Calls == [type : {"call"}, id : 1..2, method : Tools, params : Params]
NoneCall == [type |-> "none", id |-> 0, method |-> "null", params |-> [k \in ParamKeys |-> Absent]]

\* What anthropic.messages.create does: it throws, answers without a text
\* block, or answers a text that is no JSON, a JSON scalar, null, an array or
\* an object; json is the value parsed when there is one to keep.
LlmOutputs ==
    [kind : {"api error", "no text", "not json", "scalar", "null"},
     json : {[k \in ParamKeys |-> Absent]}]
      \cup [kind : {"array", "object"}, json : Params]

\* Mutant of refineStepArgumentsWithSnapshot: the collaborator is asked
\* whatever the arguments are.
refineStepArgumentsWithSnapshot_alwaysAsks(callToRefine, snapshot, llm) ==
    IF llm.kind \in {"api error", "no text", "not json", "scalar", "null"}
    THEN [done |-> TRUE, threw |-> TRUE, value |-> NoneCall, llmCalls |-> 1]
    ELSE [done |-> TRUE, threw |-> FALSE,
          value |-> [callToRefine EXCEPT !.params = llm.json], llmCalls |-> 1]

\* refineStepArgumentsWithSnapshot: the Call returned or the throw, and the
\* number of calls made to the collaborator. typeof [] is 'object', so an
\* array passes the test made on the parsed output.
refineStepArgumentsWithSnapshot(callToRefine, snapshot, llm) ==
    IF ~\E k \in ParamKeys : callToRefine.params[k] = UNKNOWN
    THEN [done |-> TRUE, threw |-> FALSE,
          value |-> [callToRefine EXCEPT !.params = callToRefine.params], llmCalls |-> 0]
    ELSE IF llm.kind \in {"api error", "no text", "not json", "scalar", "null"}
    THEN [done |-> TRUE, threw |-> TRUE, value |-> NoneCall, llmCalls |-> 1]
    ELSE [done |-> TRUE, threw |-> FALSE,
          value |-> [callToRefine EXCEPT !.params = llm.json], llmCalls |-> 1]

RefineCalls ==
    [fn : {"refineStepArgumentsWithSnapshot"}, callToRefine : Calls, snapshot : Snapshots,
     llm : LlmOutputs]

\* The orchestrator's fields play no part in a parser function.
ParserFrame ==
    UNCHANGED <<fsmState, ctx, session, sessSteps, endpointEs, sessionId, sseUrl, rpcIdCounter,
                dynamicToolMap, confirmationTimerId, liveConfirmationTimers,
                pendingSnapshotTimer, reqs, refines, pc, staleParses, stepsShared, gen, inits,
                maxRetries, alwaysGetSnapshot, confirmed, applied, startResult, failures, call,
                mcpSocket, webSockets, timers, stopped>>

Refine ==
    /\ call.fn = "refineStepArgumentsWithSnapshot"
    /\ ~ret.done
    /\ ret' = refineStepArgumentsWithSnapshot(call.callToRefine, call.snapshot, call.llm)
    /\ ParserFrame

\* The tool calls an LLM emits in one answer: n of them, numbered in emission
\* order, the one at position s naming browser_snapshot and the one at
\* position b a tool nobody declared; the others name browser_click.
emission(n, s, b) ==
    [i \in 1..n |-> [id |-> i,
                     name |-> IF i = s THEN SNAPSHOT_TOOL
                              ELSE IF i = b THEN "unknown_tool" ELSE "browser_click"]]
Emissions == {emission(n, s, b) : n \in 0..MaxEmitted, s \in 0..MaxEmitted, b \in 0..MaxEmitted}

\* The names of the tools array of the OpenAI parser.
staticToolNames ==
    {"browser_navigate", "browser_search", "browser_click", "browser_type", "scroll",
     "assert_text", "browser_handle_dialog"}

\* The emitted calls kept by the validation, as McpToolCall values.
validCalls(emitted, names) ==
    LET kept == SelectSeq(emitted, LAMBDA c : c.name \in names)
    IN [i \in 1..Len(kept) |-> [tool_call_id |-> kept[i].id, tool_name |-> kept[i].name]]

\* Array.prototype.slice(0, n)
slice(calls, n) == SubSeq(calls, 1, IF Len(calls) < n THEN Len(calls) ELSE n)

\* parseInstruction of parser/parseInstruction.ts (OpenAI): the calls whose
\* name is in the parser's own list, cut to STEP_LIMIT; [] when the API call
\* or the stream throws.
parseInstruction(emitted, apiFails) ==
    IF apiFails THEN <<>>
    ELSE IF Len(validCalls(emitted, staticToolNames)) > STEP_LIMIT
    THEN slice(validCalls(emitted, staticToolNames), STEP_LIMIT)
    ELSE validCalls(emitted, staticToolNames)

\* The step the Anthropic parser puts in front of the list.
snapshotCall == [tool_call_id |-> 0, tool_name |-> SNAPSHOT_TOOL]

hasSnapshot(calls) == \E i \in DOMAIN calls : calls[i].tool_name = SNAPSHOT_TOOL

\* Mutant of withSnapshot: the list is not cut again after the insertion.
withSnapshot_uncut(finalCalls) ==
    IF ~hasSnapshot(finalCalls) /\ Len(finalCalls) > 0
    THEN <<snapshotCall>> \o finalCalls
    ELSE finalCalls

\* The tail of the Anthropic parseInstruction: a browser_snapshot call is put
\* first unless the list is empty or has one, and the list is cut again.
withSnapshot(finalCalls) ==
    IF ~hasSnapshot(finalCalls) /\ Len(finalCalls) > 0
    THEN slice(<<snapshotCall>> \o finalCalls, STEP_LIMIT)
    ELSE finalCalls

\* parseInstruction (Anthropic): the calls whose name is among the tools
\* handed in, cut to STEP_LIMIT, then the snapshot step; [] when no tool was
\* handed in or the API call throws.
parseInstructionAnthropic(emitted, mcpTools, apiFails) ==
    IF mcpTools = {} \/ apiFails THEN <<>>
    ELSE withSnapshot(slice(validCalls(emitted, mcpTools), STEP_LIMIT))

ParseCalls ==
    [fn : {"parseInstruction", "parseInstructionAnthropic"}, emitted : Emissions,
     mcpTools : {{}, Tools}, apiFails : BOOLEAN]

Parse ==
    /\ call.fn = "parseInstruction"
    /\ ~ret.done
    /\ ret' = [done |-> TRUE, steps |-> parseInstruction(call.emitted, call.apiFails)]
    /\ ParserFrame

ParseAnthropic ==
    /\ call.fn = "parseInstructionAnthropic"
    /\ ~ret.done
    /\ ret' = [done |-> TRUE,
               steps |-> parseInstructionAnthropic(call.emitted, call.mcpTools, call.apiFails)]
    /\ ParserFrame

\* The default of truncateSnapshot's maxLength, and what the template literal
\* puts between the two halves.
MAX_SNAPSHOT_LENGTH == 10000
TRUNCATION_MARKER == "... (truncated) ..."

\* String.prototype.substring(start, end) on a string of so many characters,
\* as the range of positions it copies: arguments below 0 or above the length
\* are clamped, and swapped when start > end.
clamp(length, i) == IF i < 0 THEN 0 ELSE IF i > length THEN length ELSE i
substring(length, start, end) ==
    LET a == clamp(length, start)
        b == clamp(length, end)
    IN [kind |-> "snapshot", from |-> IF a <= b THEN a ELSE b, to |-> IF a <= b THEN b ELSE a]

marker == [kind |-> "marker", from |-> 0, to |-> Len(TRUNCATION_MARKER)]

\* A string built from a snapshot: its pieces in order, and its length.
RECURSIVE lengthOf(_)
lengthOf(pieces) ==
    IF pieces = <<>> THEN 0
    ELSE (Head(pieces).to - Head(pieces).from) + lengthOf(Tail(pieces))

truncateSnapshot_noMargin(length, maxLength) ==
    IF length > maxLength
    THEN LET halfLength == maxLength \div 2
         IN <<substring(length, 0, halfLength), marker, substring(length, length - halfLength, length)>>
    ELSE <<substring(length, 0, length)>>

\* truncateSnapshot on a snapshot of so many characters.
truncateSnapshot(length, maxLength) ==
    IF length > maxLength
    THEN LET halfLength == (maxLength \div 2) - 10
         IN <<substring(length, 0, halfLength), marker, substring(length, length - halfLength, length)>>
    ELSE <<substring(length, 0, length)>>

SnapshotLengths ==
    {0, 1, 4990, 9980, 9999, 10000, 10001, 10019, 10020, MaxSnapshotLength}

TruncateCalls == [fn : {"truncateSnapshot"}, length : SnapshotLengths]

\* The call made by refineStepArgumentsWithSnapshot: maxLength is defaulted.
Truncate ==
    /\ call.fn = "truncateSnapshot"
    /\ ~ret.done
    /\ ret' = [done |-> TRUE, pieces |-> truncateSnapshot(call.length, MAX_SNAPSHOT_LENGTH)]
    /\ ParserFrame

\* Step lists for findNextExecutableStep, and the indices to search after.
FindLists ==
    {mkSteps(raw) : raw \in UNION {[1..n -> {<<"browser_click", "e1">>, <<SNAPSHOT_TOOL, "e1">>}] :
                                      n \in 0..MaxFindLen}}

FindCalls == [fn : {"findNextExecutableStep"}, steps : FindLists, afterIndex : -1..MaxFindLen]

Find ==
    /\ call.fn = "findNextExecutableStep"
    /\ ~ret.done
    /\ ret' = [done |-> TRUE, index |-> findNextExecutableStep(call.steps, call.afterIndex)]
    /\ ParserFrame

\* One call of one pure function on one input.
InitParser ==
    /\ InitCommon
    /\ maxRetries = MAX_RETRIES
    /\ call \in RefineCalls \cup ParseCalls \cup TruncateCalls \cup FindCalls
    /\ ret = NoRet

ParserNext == Refine \/ Parse \/ ParseAnthropic \/ Truncate \/ Find

SpecParser == InitParser /\ [][ParserNext]_vars

(***************************************************************************)
(* mcp/socket.ts: McpSocket, the reconnecting wrapper of a WebSocket. The  *)
(* object, the sockets it created and the timers it scheduled are threaded *)
(* through the methods as one record.                                      *)
(***************************************************************************)
maxReconnectAttempts == MaxReconnectAttempts

SocketCur ==
    [ws |-> mcpSocket.ws, shouldReconnect |-> mcpSocket.shouldReconnect,
     reconnectAttempts |-> mcpSocket.reconnectAttempts,
     reconnectTimer |-> mcpSocket.reconnectTimer,
     sockets |-> webSockets, timers |-> timers]

\* clearReconnectTimer(): clears the timer the field refers to, and no other.
clearReconnectTimer(w) ==
    IF w.reconnectTimer # NoTimer
    THEN [w EXCEPT !.timers = @ \ {w.reconnectTimer}, !.reconnectTimer = NoTimer]
    ELSE w

\* resetReconnectState()
resetReconnectState(w) == clearReconnectTimer([w EXCEPT !.reconnectAttempts = 0])

\* connect(): returns at once when this.ws is open or connecting; otherwise a
\* new WebSocket takes the place of this.ws, whose listeners stay attached.
connect(w) ==
    IF w.ws # NoWs /\ w.sockets[w.ws].readyState \in {"OPEN", "CONNECTING"}
    THEN w
    ELSE LET c == clearReconnectTimer([w EXCEPT !.shouldReconnect = TRUE])
         IN [c EXCEPT !.sockets = Append(@, [readyState |-> "CONNECTING", listeners |-> TRUE]),
                      !.ws = Len(c.sockets) + 1]

\* WebSocket.close(): a socket not yet closed starts closing.
close(readyState) == IF readyState = "CLOSED" THEN "CLOSED" ELSE "CLOSING"

\* disconnect()
disconnect(w) ==
    LET c == clearReconnectTimer([w EXCEPT !.shouldReconnect = FALSE])
        d == IF c.ws # NoWs
             THEN [c EXCEPT !.sockets[c.ws] = [readyState |-> close(@.readyState),
                                               listeners |-> FALSE],
                            !.ws = NoWs]
             ELSE c
    IN [d EXCEPT !.reconnectAttempts = 0]

\* scheduleReconnect(): gives up at the limit; otherwise counts the attempt
\* and stores a new timer in the field, whatever the field held.
scheduleReconnect(w) ==
    IF w.reconnectAttempts >= maxReconnectAttempts
    THEN [w EXCEPT !.shouldReconnect = FALSE]
    ELSE LET t == CHOOSE i \in 1..MaxWebSockets :
                     i \notin w.timers /\ \A j \in 1..(i - 1) : j \in w.timers
         IN [w EXCEPT !.reconnectAttempts = @ + 1, !.timers = @ \cup {t}, !.reconnectTimer = t]

\* handleOpen()
handleOpen(w) == resetReconnectState(w)

\* handleClose(): acts on this.ws, whichever socket emitted 'close'.
handleClose(w) ==
    LET c == [w EXCEPT !.sockets = IF w.ws # NoWs THEN [@ EXCEPT ![w.ws].listeners = FALSE] ELSE @,
                       !.ws = NoWs]
    IN IF c.shouldReconnect THEN scheduleReconnect(c) ELSE c

\* handleError(): terminates this.ws unless it is closing or closed.
handleError(w) ==
    IF w.ws # NoWs /\ w.sockets[w.ws].readyState \in {"CLOSING", "CLOSED"} THEN w
    ELSE IF w.ws # NoWs THEN [w EXCEPT !.sockets[w.ws].readyState = "CLOSING"]
    ELSE w

\* The orchestrator and the parser play no part in the socket.
SocketFrame ==
    UNCHANGED <<fsmState, ctx, session, sessSteps, endpointEs, sessionId, sseUrl, rpcIdCounter,
                dynamicToolMap, confirmationTimerId, liveConfirmationTimers,
                pendingSnapshotTimer, reqs, refines, pc, staleParses, stepsShared, gen, inits,
                maxRetries, alwaysGetSnapshot, confirmed, applied, startResult, failures,
                call, ret>>

ApplySocket(w) ==
    /\ mcpSocket' = [ws |-> w.ws, shouldReconnect |-> w.shouldReconnect,
                     reconnectAttempts |-> w.reconnectAttempts,
                     reconnectTimer |-> w.reconnectTimer]
    /\ webSockets' = w.sockets
    /\ timers' = w.timers
    /\ SocketFrame

\* The owner calls connect() and a socket is created.
Connect ==
    /\ connect(SocketCur) # SocketCur
    /\ Len(webSockets) < MaxWebSockets
    /\ ApplySocket(connect(SocketCur))
    /\ stopped' = FALSE

\* The owner calls disconnect().
Disconnect ==
    /\ ApplySocket(disconnect(SocketCur))
    /\ stopped' = TRUE

\* A connecting socket opens; 'open' reaches the listener it still has.
WsOpen(s) ==
    /\ webSockets[s].readyState = "CONNECTING"
    /\ LET w == [SocketCur EXCEPT !.sockets[s].readyState = "OPEN"]
       IN ApplySocket(IF webSockets[s].listeners THEN handleOpen(w) ELSE w)
    /\ UNCHANGED stopped

\* A socket fails: it starts closing and emits 'error'.
WsError(s) ==
    /\ webSockets[s].readyState \in {"CONNECTING", "OPEN"}
    /\ LET w == [SocketCur EXCEPT !.sockets[s].readyState = "CLOSING"]
       IN ApplySocket(IF webSockets[s].listeners THEN handleError(w) ELSE w)
    /\ UNCHANGED stopped

\* The peer starts the closing handshake of an open socket.
WsClosing(s) ==
    /\ webSockets[s].readyState = "OPEN"
    /\ ApplySocket([SocketCur EXCEPT !.sockets[s].readyState = "CLOSING"])
    /\ UNCHANGED stopped

\* A socket is closed and emits 'close', once.
WsClose(s) ==
    /\ webSockets[s].readyState # "CLOSED"
    /\ LET w == [SocketCur EXCEPT !.sockets[s].readyState = "CLOSED"]
       IN ApplySocket(IF webSockets[s].listeners THEN handleClose(w) ELSE w)
    /\ UNCHANGED stopped

\* The callback of a pending timer runs: it clears the field and connects.
TimerFires(t) ==
    /\ t \in timers
    /\ LET w == connect([SocketCur EXCEPT !.timers = @ \ {t}, !.reconnectTimer = NoTimer])
       IN /\ Len(w.sockets) <= MaxWebSockets
          /\ ApplySocket(w)
    /\ UNCHANGED stopped

SocketNext ==
    \/ Connect
    \/ Disconnect
    \/ \E s \in 1..Len(webSockets) : WsOpen(s)
    \/ \E s \in 1..Len(webSockets) : WsError(s)
    \/ \E s \in 1..Len(webSockets) : WsClosing(s)
    \/ \E s \in 1..Len(webSockets) : WsClose(s)
    \/ \E t \in timers : TimerFires(t)

SpecSocket == Init /\ [][SocketNext]_vars

(***************************************************************************)
(* Properties                                                              *)
(***************************************************************************)
\* A tools/call the orchestrator still counts on: not answered, POST not failed.
Outstanding(r) == r.kind \in {"step", "snap"} /\ ~r.answered /\ r.post # "failed"

ExecutionErrors == {"mcp error", "Failed to send command", "Session not initialized"}

\* C1: a planned step is sent to the remote server only after the user
\* confirmed it: whenever the FSM of the active session is in EXECUTE, and
\* for every tools/call of a planned step of that session, the step's index
\* is one the user confirmed while it was stepToConfirm, and the call made
\* for the step being executed carries the step the FSM held for confirmation.
C1_OnlyConfirmedStepsAreSent ==
    session # 0 =>
       /\ fsmState = "EXECUTE" => ctx.currentStepIndex \in confirmed
       /\ \A r \in reqs : (r.kind = "step" /\ r.owner = session) =>
             /\ r.idx \in confirmed
             /\ (fsmState = "EXECUTE" /\ r.idx = ctx.currentStepIndex) =>
                   r.step = ctx.steps[r.idx + 1]

\* C2: the outcome of a request issued by a session that has since been
\* discarded never changes the FSM of a later session.
C2_LateOutcomesAreDropped ==
    ~(applied.from # 0 /\ applied.to # 0 /\ applied.from # applied.to /\ applied.changed)

\* C3: a message received on the stream changes the FSM only if it answers
\* the tools/call issued for the current step.
C3_OnlyTheAnswerOfTheCurrentStepIsApplied ==
    (applied.via = "stream" /\ applied.changed) => applied.match

\* C4: at most one tools/call is outstanding per session stream.
C4_AtMostOneOutstanding ==
    \A g \in 1..MaxSessions : Cardinality({r \in reqs : r.sid = g /\ Outstanding(r)}) <= 1

\* C5: no step is shown for confirmation or sent for execution while one of
\* its arguments is the UNKNOWN sentinel.
C5_NoUnknownShownOrSent ==
    /\ ctx.stepToConfirm # NoStep => ~checkRefinementNeeded(ctx.stepToConfirm)
    /\ \A r \in reqs : (r.kind = "step" /\ r.step # NoStep) => ~checkRefinementNeeded(r.step)

\* C6: after a failure that was retried (retryCount > 0) the call for the
\* same step has been issued again: in EXECUTE with the stream up a tools/call
\* for the current step is outstanding, in WAIT_LLM_RESPONSE a refinement of
\* the current step is in flight.
C6_RetryIssuesTheCallAgain ==
    (session # 0 /\ ctx.retryCount > 0) =>
       /\ (fsmState = "EXECUTE" /\ sseUrl # 0 /\ sessionId # 0) =>
             \E r \in reqs : /\ r.kind = "step" /\ r.owner = session
                             /\ r.idx = ctx.currentStepIndex /\ Outstanding(r)
       /\ fsmState = "WAIT_LLM_RESPONSE" =>
             \E rf \in refines : /\ rf.owner = session
                                 /\ rf.tool_call_id = sessSteps[ctx.currentStepIndex + 1].tool_call_id

C8_FirstFailureIsTerminal ==
    (maxRetries = 0 /\ failures > 0) =>
       /\ failures = 1
       /\ fsmState = "ERROR"
       /\ ctx.lastError # NoError
       /\ ctx.retryCount = 0
       /\ session = 0

C8_Witness ==
    /\ maxRetries = 0
    /\ failures = 1
    /\ fsmState = "ERROR"
    /\ ctx.lastError = "LLM refinement failed"

\* C9: a session halted by an execution failure has retried the step twice.
C9_RetriedTwiceBeforeHalt ==
    (fsmState = "ERROR" /\ ctx.lastError \in ExecutionErrors) => ctx.retryCount = 2

\* C10: once the push stream of an active session is lost and nothing the
\* system does on its own is left to happen, the session has ended.
C10_StreamLossEndsTheSession ==
    (session # 0 /\ endpointEs = 0 /\ ~ENABLED SystemNext) => fsmState \in {"IDLE", "ERROR"}

\* C11: once a session in which a step was confirmed has ended, its FSM back
\* in IDLE or in ERROR, the orchestrator holds no session object, no open
\* push stream and no session id.
C11_EndedSessionIsDiscarded ==
    (pc = "idle" /\ confirmed # {} /\ fsmState \in {"IDLE", "ERROR"}) =>
       (session = 0 /\ endpointEs = 0 /\ sessionId = 0)

\* C12: after the failure that exhausted the retry budget, and until the
\* next startSession, getStatus() returns ERROR with lastError set.
C12_ErrorIsObservable ==
    failures > maxRetries =>
       (getStatus.state = "ERROR" /\ getStatus.context.lastError # NoError)

\* C13: a startSession call never returns normally with an empty step list
\* (parsing that yields no step is reported as an error).
C13_EmptyParseIsAnError ==
    startResult.outcome = "returned" => startResult.steps > 0

\* The tools/call requests of planned steps POSTed by the step taken.
Posted == {r \in reqs' : r.kind = "step" /\ ~\E q \in reqs : q.sid = r.sid /\ q.id = r.id}

\* C16: no tools/call is POSTed for a step whose tool has no entry in the
\* catalog built from tools/list.
C16_UncataloguedStepIsNotPosted ==
    [][\A r \in Posted : r.step.tool_name \in dynamicToolMap]_vars

\* The step at position index of the FSM's list has an argument to resolve.
needsRefinement(steps, index) ==
    index + 1 \in DOMAIN steps /\ checkRefinementNeeded(steps[index + 1])

\* The refinement call the active session made for its current step returns
\* arguments in this step.
RefinedNow ==
    \E rf \in refines, value \in ArgValues :
       /\ RefineDone(rf, value)
       /\ rf.owner = session
       /\ rf.tool_call_id = ctx.steps[ctx.currentStepIndex + 1].tool_call_id

\* C17: within a session, when a successful response with a snapshot makes a
\* step with an UNKNOWN argument current, the FSM enters WAIT_LLM_RESPONSE;
\* and the FSM enters WAIT_CONFIRM for a step that had an UNKNOWN argument
\* when it became current only from WAIT_LLM_RESPONSE, by the success of the
\* refinement of that step.
C17_RefinementPrecedesConfirmation ==
    [][(session # 0 /\ session' = session) =>
         /\ (/\ fsmState = "EXECUTE"
             /\ ctx'.currentStepIndex > ctx.currentStepIndex
             /\ needsRefinement(ctx'.steps, ctx'.currentStepIndex)
             /\ ctx'.latestSnapshot # NoSnapshot) => fsmState' = "WAIT_LLM_RESPONSE"
         /\ (/\ fsmState \in {"EXECUTE", "WAIT_LLM_RESPONSE"}
             /\ fsmState' = "WAIT_CONFIRM"
             /\ needsRefinement(ctx.steps, ctx'.currentStepIndex)) =>
                (fsmState = "WAIT_LLM_RESPONSE" /\ RefinedNow)]_vars

\* C18: within one session, from the parse until the session ends (the FSM
\* returns to IDLE or the session is discarded), no step of the system
\* decreases currentStepIndex.
C18_StepIndexNeverDecreases ==
    [][(session # 0 /\ session' = session /\ fsmState' # "IDLE") =>
          ctx'.currentStepIndex >= ctx.currentStepIndex]_vars

\* The index has advanced from the first step to the second.
C18_Witness ==
    /\ session # 0
    /\ fsmState = "WAIT_CONFIRM"
    /\ ctx.currentStepIndex = 1
    /\ confirmed = {0}
    /\ ctx.stepToConfirm = ctx.steps[2]

\* C19: stepToConfirm is null or a step whose tool is not browser_snapshot,
\* whether it was selected from the parsed list or produced by refinement.
C19_SnapshotStepIsNeverShown ==
    ctx.stepToConfirm = NoStep \/ ctx.stepToConfirm.tool_name # SNAPSHOT_TOOL

\* C20: a CONFIRM_STEP received while the FSM is not in WAIT_CONFIRM changes
\* neither the state nor the context of the FSM, and issues no tools/call and
\* no refinement call.
C20_ConfirmElsewhereIsANoOp ==
    [][(handleConfirmStep /\ fsmState # "WAIT_CONFIRM") =>
          /\ UNCHANGED <<fsmState, ctx, sessSteps, rpcIdCounter, refines>>
          /\ Posted = {}]_vars

\* A step is being executed, its tools/call is in flight, and the user can
\* send a confirmation.
C20_Witness ==
    /\ session # 0
    /\ fsmState = "EXECUTE"
    /\ \E r \in reqs : r.kind = "step" /\ r.owner = session /\ Outstanding(r)
    /\ ENABLED handleConfirmStep

\* The session has been through its parse and its FSM is in IDLE: it was
\* cancelled, rejected or completed.
Ended == session # 0 /\ pc = "idle" /\ fsmState = "IDLE"

\* C21: in WAIT_CONFIRM, EXECUTE, WAIT_LLM_RESPONSE and ERROR the FSM answers
\* CANCEL_SESSION with IDLE and the reset context; a cancel command received
\* outside IDLE leaves the FSM in IDLE with the context reset and issues
\* nothing; and as long as the cancelled session stays, no tools/call of a
\* step is POSTed and no refinement call is made, the outcome of a request
\* or refinement that was pending included.
C21_CancelEndsTheSession ==
    [][/\ \A st \in States \ {"IDLE"} :
             transition(st, ctx, "CANCEL_SESSION", Payload, maxRetries)
                = [state |-> "IDLE", ctx |-> resetContext]
       /\ (handleCancelSession /\ fsmState # "IDLE") =>
             (fsmState' = "IDLE" /\ ctx' = resetContext /\ Posted = {} /\ refines' \subseteq refines)
       /\ (Ended /\ session' = session) =>
             (fsmState' = "IDLE" /\ Posted = {} /\ refines' \subseteq refines)]_vars

\* A session with a retry budget was cancelled in EXECUTE after the POST of
\* its first step had failed and the failure had been counted as a retry.
C21_Witness ==
    /\ Ended
    /\ gen = 1
    /\ maxRetries > 0
    /\ ctx = resetContext
    /\ \E q \in reqs : /\ q.kind = "step" /\ q.owner = session
                        /\ q.post = "failed" /\ ~q.answered
                        /\ \A r \in reqs : r.kind = "step" => r = q

\* C22: a confirmation request carrying step id X makes the orchestrator POST
\* the tools/call of a step only if X is the id of the step exposed as
\* stepToConfirm when the request arrives.
C22_ConfirmationNamesTheStepShown ==
    [][\A stepId \in StepIds :
          (apiConfirm(stepId) /\ Posted # {}) =>
             (ctx.stepToConfirm # NoStep /\ stepId = ctx.stepToConfirm.tool_call_id)]_vars

\* C23: at most one FSM receives events: while a session is active, no step
\* dispatches an event to the FSM created by another startSession call.
C23_OnlyTheActiveFsmReceivesEvents ==
    [][\A g \in staleParses, steps \in StepLists :
          ~(session # 0 /\ session # g /\ StaleParseDone(g, steps))]_vars

\* C24: refineStepArgumentsWithSnapshot applied to a call none of whose
\* argument values is UNKNOWN returns that call, with the same method, id and
\* arguments, and makes no call to the collaborator.
C24_NothingToRefineIsANoOp ==
    (/\ call.fn = "refineStepArgumentsWithSnapshot"
     /\ ret.done
     /\ \A k \in ParamKeys : call.callToRefine.params[k] # UNKNOWN) =>
        (~ret.threw /\ ret.value = call.callToRefine /\ ret.llmCalls = 0)

\* A call with an argument and no UNKNOWN was refined while the collaborator
\* would have answered other arguments.
C24_Witness ==
    /\ call.fn = "refineStepArgumentsWithSnapshot"
    /\ ret.done
    /\ \A k \in ParamKeys : call.callToRefine.params[k] # UNKNOWN
    /\ \E k \in ParamKeys : call.callToRefine.params[k] # Absent
    /\ call.llm.kind = "object"
    /\ call.llm.json # call.callToRefine.params

\* A parser call that reached the LLM and got an answer.
Parsed ==
    /\ call.fn \in {"parseInstruction", "parseInstructionAnthropic"}
    /\ ret.done
    /\ ~call.apiFails
    /\ call.fn = "parseInstructionAnthropic" => call.mcpTools # {}

\* The valid tool calls of the answer, in emission order.
emittedValid ==
    validCalls(call.emitted,
               IF call.fn = "parseInstruction" THEN staticToolNames ELSE call.mcpTools)

C26_FirstStepIsRefinedBeforeItIsShown ==
    [][(fsmState = "IDLE" /\ fsmState' = "WAIT_CONFIRM") =>
          (ctx'.stepToConfirm # NoStep /\ ~checkRefinementNeeded(ctx'.stepToConfirm))]_vars

\* C27: when parseInstruction resolves with a non-empty list all of whose
\* steps are browser_snapshot steps, PARSING_COMPLETE puts the FSM of the
\* session in ERROR.
C27_NoExecutableStepIsAnError ==
    [][\A steps \in StepLists :
          (/\ ParseDone(steps)
           /\ session # 0
           /\ Len(steps) > 0
           /\ findNextExecutableStep(steps, -1) = -1) => fsmState' = "ERROR"]_vars

\* C28: in EXECUTE, a response without error that leaves an executable step
\* makes that step current; if the step has an UNKNOWN argument the FSM goes
\* to ERROR with lastError set when it then holds no snapshot and to
\* WAIT_LLM_RESPONSE when it holds one; otherwise it goes to WAIT_CONFIRM with
\* that step as stepToConfirm.
C28_AfterSuccessTheNextStepIsPrepared ==
    (session # 0 /\ fsmState = "EXECUTE") =>
       \A res \in Results :
          LET t == transition("EXECUTE", ctx, "MCP_RESPONSE_RECEIVED",
                              [Payload EXCEPT !.snapshot = res.snapshot], maxRetries)
              next == findNextExecutableStep(ctx.steps, ctx.currentStepIndex)
          IN (res.error = NoError /\ next # -1) =>
                /\ t.ctx.currentStepIndex = next
                /\ IF checkRefinementNeeded(ctx.steps[next + 1])
                   THEN IF t.ctx.latestSnapshot = NoSnapshot
                        THEN t.state = "ERROR" /\ t.ctx.lastError # NoError
                        ELSE t.state = "WAIT_LLM_RESPONSE"
                   ELSE t.state = "WAIT_CONFIRM" /\ t.ctx.stepToConfirm = ctx.steps[next + 1]

\* The first step succeeded with a snapshot and the second, which has an
\* UNKNOWN argument, is being refined.
C28_Witness ==
    /\ session # 0
    /\ fsmState = "WAIT_LLM_RESPONSE"
    /\ ctx.currentStepIndex = 1
    /\ checkRefinementNeeded(ctx.steps[2])
    /\ ctx.latestSnapshot # NoSnapshot
    /\ \E rf \in refines : rf.owner = session /\ rf.tool_call_id = ctx.steps[2].tool_call_id

\* The step taken is the message listener handing a response with outcome
\* res to the FSM of the active session while it is in EXECUTE.
HandledInExecute(res) ==
    /\ session # 0
    /\ fsmState = "EXECUTE"
    /\ \E r \in reqs : StreamMessage(r, res)

\* C29: a response handled in EXECUTE leaves latestSnapshot equal to the
\* snapshot of that response, null when it carries none (and null when the
\* response ends the session and the context is reset); and nothing else
\* gives latestSnapshot a snapshot.
C29_LatestSnapshotIsTheLastResponses ==
    [][/\ \A res \in Results :
             HandledInExecute(res) =>
                ctx'.latestSnapshot = IF fsmState' = "IDLE" THEN NoSnapshot ELSE res.snapshot
       /\ (ctx'.latestSnapshot # ctx.latestSnapshot /\ ctx'.latestSnapshot # NoSnapshot) =>
             \E res \in Results : HandledInExecute(res)]_vars

\* The second step is being executed, the FSM holds the snapshot of the
\* first, and a response without a snapshot can arrive.
C29_Witness ==
    /\ session # 0
    /\ fsmState = "EXECUTE"
    /\ ctx.currentStepIndex = 1
    /\ ctx.latestSnapshot # NoSnapshot
    /\ \E r \in reqs :
          /\ answersCurrentStep(r)
          /\ ENABLED StreamMessage(r, [error |-> "mcp error", snapshot |-> NoSnapshot])

\* C30: a successful refinement (WAIT_LLM_RESPONSE to WAIT_CONFIRM) keeps the
\* length of the step list and every step but the current one, keeps the tool
\* name and id of the current step, keeps currentStepIndex and totalSteps,
\* makes the refined step stepToConfirm and sets retryCount to 0.
C30_RefinementChangesOnlyTheArguments ==
    [][(session # 0 /\ fsmState = "WAIT_LLM_RESPONSE" /\ fsmState' = "WAIT_CONFIRM") =>
          /\ Len(ctx'.steps) = Len(ctx.steps)
          /\ \A i \in DOMAIN ctx.steps :
                i # ctx.currentStepIndex + 1 => ctx'.steps[i] = ctx.steps[i]
          /\ ctx'.steps[ctx.currentStepIndex + 1].tool_name
                = ctx.steps[ctx.currentStepIndex + 1].tool_name
          /\ ctx'.steps[ctx.currentStepIndex + 1].tool_call_id
                = ctx.steps[ctx.currentStepIndex + 1].tool_call_id
          /\ ctx'.currentStepIndex = ctx.currentStepIndex
          /\ ctx'.totalSteps = ctx.totalSteps
          /\ ctx'.stepToConfirm = ctx'.steps[ctx.currentStepIndex + 1]
          /\ ctx'.retryCount = 0]_vars

\* C31: retryCount stays within 0..MAX_RETRIES; the failures handled in a
\* row for one step never exceed MAX_RETRIES + 1, the last of them being the
\* one that puts the FSM in ERROR; and the tools/calls in flight for the
\* current step of the session never exceed retryCount + 1.
C31_RetriesStayWithinTheBudget ==
    /\ ctx.retryCount \in 0..maxRetries
    /\ failures <= maxRetries + 1
    /\ failures = maxRetries + 1 => fsmState = "ERROR"
    /\ (session # 0 /\ fsmState = "EXECUTE") =>
          Cardinality({r \in reqs : /\ r.kind = "step" /\ r.owner = session
                                    /\ r.idx = ctx.currentStepIndex}) <= ctx.retryCount + 1

\* The whole budget of a build with MAX_RETRIES > 1 has been spent on the
\* step being executed.
C31_Witness ==
    /\ session # 0
    /\ fsmState = "EXECUTE"
    /\ maxRetries > 1
    /\ ctx.retryCount = maxRetries
    /\ failures = maxRetries

\* The events that report on a step, and payloads they may carry.
StepEvents ==
    {"CONFIRM_STEP", "REJECT_STEP", "MCP_RESPONSE_RECEIVED", "STEP_FAILED",
     "LLM_RESPONSE_RECEIVED", "LLM_RESPONSE_FAILED"}

StepPayloads ==
    [steps : {<<>>},
     snapshot : Snapshots \cup {NoSnapshot},
     refinedStep : {NoStep, [tool_name |-> "browser_click", arguments |-> [ref |-> "e1"],
                             tool_call_id |-> 1]},
     error : {NoError, "late error"}]

\* C32: an FSM in IDLE or in ERROR ignores the six events that report on a
\* step: whatever payload they carry, its state and every field of its
\* context stay as they are; and every step of the orchestrator that hands
\* such an event to an FSM in IDLE or ERROR leaves the FSM as it was.
C32_DiscardedFsmIgnoresStepEvents ==
    /\ [](fsmState \in {"IDLE", "ERROR"} =>
             \A event \in StepEvents, payload \in StepPayloads :
                transition(fsmState, ctx, event, payload, maxRetries)
                   = [state |-> fsmState, ctx |-> ctx])
    /\ [][(/\ fsmState \in {"IDLE", "ERROR"}
           /\ \/ handleConfirmStep
              \/ handleRejectStep
              \/ \E r \in reqs, res \in Results : StreamMessage(r, res)
              \/ \E r \in reqs : PostFail(r)
              \/ \E rf \in refines, value \in ArgValues \cup {"throw"} : RefineDone(rf, value))
          => UNCHANGED <<fsmState, ctx>>]_vars

\* The FSM of a session returned to IDLE after its last step, the session
\* object still holding it, while an answer to a request of that session is
\* yet to arrive on the stream and to be handed to it.
C32_Witness ==
    /\ session # 0
    /\ pc = "idle"
    /\ fsmState = "IDLE"
    /\ ctx = resetContext
    /\ confirmed # {}
    /\ \E r \in reqs : /\ r.owner = session /\ ~r.answered
                       /\ ENABLED StreamMessage(r, [error |-> NoError, snapshot |-> NoSnapshot])

\* C33: while a session is active, no answer to tools/list, in the body of
\* the POST or on the stream, changes the catalog that was built when the
\* initialization completed.
C33_AnswersLeaveTheCatalogAlone ==
    [][(/\ session # 0
        /\ session' = session
        /\ dynamicToolMap # {}
        /\ \/ \E r \in reqs, outcome \in {"sync", "accepted", "unexpected"}, result \in ToolsResults :
                 ToolsListPost(r, outcome, result)
           \/ \E r \in reqs, result \in ToolsResults : ToolsListStream(r, result))
       => dynamicToolMap' = dynamicToolMap]_vars

\* C34: what truncateSnapshot returns is never longer than 10,000
\* characters: a snapshot of at most 10,000 characters is returned whole, and
\* a longer one as its first 4,990 characters, the marker, and its last 4,990
\* characters.
C34_ExcerptIsAtMostTenThousand ==
    (call.fn = "truncateSnapshot" /\ ret.done) =>
       LET n == call.length
       IN /\ lengthOf(ret.pieces) <= 10000
          /\ n <= 10000 => ret.pieces = <<[kind |-> "snapshot", from |-> 0, to |-> n]>>
          /\ n > 10000 =>
                ret.pieces = <<[kind |-> "snapshot", from |-> 0, to |-> 4990],
                               marker,
                               [kind |-> "snapshot", from |-> n - 4990, to |-> n]>>

\* A snapshot one character too long was cut down.
C34_Witness ==
    /\ call.fn = "truncateSnapshot"
    /\ ret.done
    /\ call.length = 10001
    /\ Len(ret.pieces) = 3
    /\ lengthOf(ret.pieces) = 9999

\* C35: when refinement is needed and the collaborator's output is anything
\* other than a JSON object (an API error, no text, text that is not JSON, a
\* JSON scalar, null, or a JSON array), refineStepArgumentsWithSnapshot
\* throws and returns no refined call.
C35_OnlyAnObjectIsAccepted ==
    (/\ call.fn = "refineStepArgumentsWithSnapshot"
     /\ ret.done
     /\ \E k \in ParamKeys : call.callToRefine.params[k] = UNKNOWN
     /\ call.llm.kind # "object") =>
        (ret.threw /\ ret.value = NoneCall)

\* C36: findNextExecutableStep returns the smallest index above afterIndex
\* whose step is not a browser_snapshot, and -1 exactly when there is none.
C36_NextExecutableIsTheNearest ==
    (call.fn = "findNextExecutableStep" /\ ret.done) =>
       LET executable == {i \in 0..(Len(call.steps) - 1) :
                            /\ i > call.afterIndex
                            /\ call.steps[i + 1].tool_name # SNAPSHOT_TOOL}
       IN /\ ret.index = -1 <=> executable = {}
          /\ ret.index # -1 => /\ ret.index \in executable
                               /\ \A j \in executable : ret.index <= j

\* A search that passed over a browser_snapshot, after an executable step
\* that lies before afterIndex, to find the step behind it.
C36_Witness ==
    /\ call.fn = "findNextExecutableStep"
    /\ ret.done
    /\ call.afterIndex = 0
    /\ Len(call.steps) = 3
    /\ call.steps[1].tool_name # SNAPSHOT_TOOL
    /\ call.steps[2].tool_name = SNAPSHOT_TOOL
    /\ ret.index = 2

\* C37: stepToConfirm is non-null exactly in WAIT_CONFIRM, where it is the
\* step at steps[currentStepIndex] and 0 <= currentStepIndex < totalSteps; in
\* IDLE the context is the reset context.
C37_StepToConfirmOnlyInWaitConfirm ==
    /\ ctx.stepToConfirm # NoStep <=> fsmState = "WAIT_CONFIRM"
    /\ fsmState = "WAIT_CONFIRM" =>
          /\ ctx.currentStepIndex >= 0
          /\ ctx.currentStepIndex < ctx.totalSteps
          /\ ctx.totalSteps = Len(ctx.steps)
          /\ ctx.stepToConfirm = ctx.steps[ctx.currentStepIndex + 1]
    /\ fsmState = "IDLE" => ctx = resetContext

\* The second step is up for confirmation with nothing left to refine, the
\* first having been confirmed and executed and a snapshot received.
C37_Witness ==
    /\ fsmState = "WAIT_CONFIRM"
    /\ ctx.currentStepIndex = 1
    /\ ctx.latestSnapshot # NoSnapshot
    /\ confirmed = {0}
    /\ ctx.stepToConfirm = ctx.steps[2]
    /\ ~checkRefinementNeeded(ctx.stepToConfirm)

\* C38: the step POSTed when a confirmation takes the FSM to EXECUTE has the
\* tool name and the arguments of the step that was shown as stepToConfirm,
\* and while a session has a current step, this.session.steps and the FSM's
\* steps hold the same step at currentStepIndex.
C38_SentStepIsTheStepConfirmed ==
    /\ []((/\ session # 0
           /\ fsmState \in {"WAIT_CONFIRM", "EXECUTE", "WAIT_LLM_RESPONSE"}) =>
             /\ ctx.currentStepIndex + 1 \in DOMAIN sessSteps
             /\ sessSteps[ctx.currentStepIndex + 1] = ctx.steps[ctx.currentStepIndex + 1])
    /\ [][(fsmState = "WAIT_CONFIRM" /\ handleConfirmStep) =>
             \A r \in Posted : /\ r.step.tool_name = ctx.stepToConfirm.tool_name
                               /\ r.step.arguments = ctx.stepToConfirm.arguments]_vars

\* The steps of a list a session executes: those that are not browser_snapshot.
executable(steps) == {i \in 0..(Len(steps) - 1) : steps[i + 1].tool_name # SNAPSHOT_TOOL}

\* Session g is in progress: its FSM has a current step.
InProgress(g) ==
    /\ session = g /\ gen = g
    /\ fsmState \in {"WAIT_CONFIRM", "EXECUTE", "WAIT_LLM_RESPONSE"}

\* Session g is over with every executable step confirmed and entered.
Completed(g) == session = g /\ gen = g /\ fsmState = "IDLE" /\ pc = "idle"

\* Session g ended because the step that came next had a placeholder and the
\* last result brought no snapshot to refine it with.
SnapshotMissing(g) ==
    /\ gen = g /\ session = 0
    /\ fsmState = "ERROR"
    /\ ctx.lastError = "Refinement required but snapshot missing"

\* Each entry into EXECUTE is for the first executable step after those
\* entered so far, and the FSM returns to IDLE from EXECUTE only once every
\* executable step has been entered.
EnteredOnceInListOrder ==
    [][/\ (fsmState # "EXECUTE" /\ fsmState' = "EXECUTE") =>
            /\ ctx'.currentStepIndex \notin confirmed
            /\ confirmed' = confirmed \cup {ctx'.currentStepIndex}
            /\ confirmed = {i \in executable(ctx'.steps) : i < ctx'.currentStepIndex}
       /\ (fsmState = "EXECUTE" /\ fsmState' = "IDLE" /\ session' = session) =>
            confirmed = executable(ctx.steps)]_vars

\* C39 as stated: with every step confirmed and every execution and
\* refinement succeeding, a session in progress reaches IDLE, each
\* executable step having been entered once, in list order; sessions that
\* run into the bound on request ids are left out.
C39_CooperativeSessionReachesIdle ==
    /\ EnteredOnceInListOrder
    /\ \A g \in 1..MaxSessions : InProgress(g) ~> (Completed(g) \/ rpcIdCounter > MaxRpcId)

\* C39 amended: such a session reaches IDLE, or ERROR when a result without a
\* snapshot is followed by a step that needs refinement; sessions that run
\* into the bound on request ids are left out.
C39_CooperativeSessionEnds ==
    /\ EnteredOnceInListOrder
    /\ \A g \in 1..MaxSessions :
          InProgress(g) ~> (Completed(g) \/ SnapshotMissing(g) \/ rpcIdCounter > MaxRpcId)

\* A session of two executable steps came to its end in IDLE within the
\* bound on request ids.
C39_Witness ==
    /\ session # 0
    /\ fsmState = "IDLE"
    /\ pc = "idle"
    /\ confirmed = {0, 1}
    /\ rpcIdCounter <= MaxRpcId + 1

\* C40: McpSocket keeps its reconnecting within bounds: reconnectAttempts
\* stays within 0..maxReconnectAttempts; at most one reconnect timer is
\* pending at a time; after disconnect(), and until connect() is called again,
\* no reconnect timer is pending and none fires; and an 'open' delivered to
\* the McpSocket leaves reconnectAttempts at 0.
C40_ReconnectsAreBoundedAndSingle ==
    /\ [](/\ mcpSocket.reconnectAttempts \in 0..maxReconnectAttempts
          /\ Cardinality(timers) <= 1
          /\ stopped => timers = {})
    /\ [][/\ \A t \in timers : stopped => ~TimerFires(t)
          /\ \A s \in 1..Len(webSockets) :
                (webSockets[s].listeners /\ WsOpen(s)) => mcpSocket'.reconnectAttempts = 0]_vars

\* getStatus() reports IDLE with no steps.
IdleStatus ==
    /\ getStatus.state = "IDLE"
    /\ getStatus.context.steps = <<>>
    /\ getStatus.context.totalSteps = 0

\* C14: when the confirmation timer expires while the FSM of the session is
\* in WAIT_CONFIRM the FSM goes to IDLE and getStatus() reports IDLE with zero
\* steps; it keeps reporting that until startSession is called again; and a
\* session left in WAIT_CONFIRM without user input eventually reports IDLE.
C14_TimeoutReturnsToIdle ==
    /\ [][(ConfirmationTimeout /\ session # 0 /\ fsmState = "WAIT_CONFIRM") =>
             (session' = session /\ fsmState' = "IDLE" /\ IdleStatus')]_vars
    /\ [][(IdleStatus /\ pc = "idle" /\ gen' = gen) => IdleStatus']_vars
    /\ (session # 0 /\ fsmState = "WAIT_CONFIRM") ~> IdleStatus

\* The timer of the only session started has just expired.
C14_Witness ==
    /\ applied.via = "timer"
    /\ gen = 1 /\ pc = "idle"
    /\ session = 1
    /\ fsmState = "IDLE"
    /\ liveConfirmationTimers = 0

\* C15: at most one confirmation timer is live, the timer field holds it, and
\* one is live exactly while the FSM of the active session is in WAIT_CONFIRM.
C15_OneTimerExactlyInWaitConfirm ==
    /\ liveConfirmationTimers <= 1
    /\ confirmationTimerId <=> (liveConfirmationTimers = 1)
    /\ (liveConfirmationTimers = 1) <=> (session # 0 /\ fsmState = "WAIT_CONFIRM")

====
